---- MODULE Spec2Model ----
(***************************************************************************)
(* Model of the template-routing dataset pipeline:                         *)
(*   scripts/metadata/generate_prompt_dataset.py  (PromptExpander)         *)
(*   scripts/metadata/prepare_finetune.py         (FinetuneFormatter)      *)
(*                                                                         *)
(* A file is modelled by the sequence of lines that                        *)
(* read_text().splitlines() returns for it.  A line that is the JSON text  *)
(* of an object is the record [json |-> obj], obj being a function from    *)
(* the keys present to their values; any other line is [raw |-> text] and  *)
(* makes json.loads raise.  JSON strings are TLA+ strings, JSON lists are  *)
(* sequences.  Python indices are 0-based, sequence positions 1-based.     *)
(* Every line of valid JSON holds an object, and supported_formats,        *)
(* user_phrases and keywords, where present, hold lists of strings.        *)
(* The prompt dataset is one file: OUT of the first script, PROMPTS of the *)
(* second.                                                                 *)
(***************************************************************************)
EXTENDS Integers, Sequences, FiniteSets, TLC

VARIABLES
    SOURCE,     \* lines of metadata_canonical_db.jsonl
    OUT,        \* lines of metadata_prompt_dataset.jsonl (PROMPTS of stage 2)
    OUTPUT,     \* lines of metadata_finetune_dataset.jsonl
    xpc,        \* PromptExpander: position in main()
    xlines,     \* PromptExpander: SOURCE.read_text().splitlines()
    xi,         \* PromptExpander: position of the loop over xlines (1-based)
    examples,   \* PromptExpander: the list built by main()
    origin,     \* history: origin[j] = <<line position, phrase idx>> of examples[j]
    xerr,       \* PromptExpander: uncaught exception, "" when none
    xprinted,   \* PromptExpander: counts printed by the summary line
    OUT0,       \* history: content of OUT before any run
    fpc,        \* FinetuneFormatter: position in the module body
    flines,     \* FinetuneFormatter: PROMPTS.read_text().splitlines()
    fi,         \* FinetuneFormatter: position of the loop over flines (1-based)
    ferr,       \* FinetuneFormatter: uncaught exception, "" when none
    fprinted    \* FinetuneFormatter: number of summary lines printed

vars == <<SOURCE, OUT, OUTPUT, xpc, xlines, xi, examples, origin, xerr,
          xprinted, OUT0, fpc, flines, fi, ferr, fprinted>>

xvars == <<xpc, xlines, xi, examples, origin, xerr, xprinted, OUT0>>
fvars == <<fpc, flines, fi, ferr, fprinted>>

-----------------------------------------------------------------------------
(* Bounds of the model *)

MaxRecords == 2
MaxPhrases == 5

-----------------------------------------------------------------------------
(* Python / JSON helpers *)

\* Python's None (JSON null).  Reserved: no string drawn for an input is "None".
None == "None"

Min(a, b) == IF a < b THEN a ELSE b

\* json.loads(line) succeeds
ValidJson(line) == "json" \in DOMAIN line

\* json.loads(line), for a line on which it succeeds
JsonLoads(line) == line.json

\* json.dumps(obj, ensure_ascii=False): the line holding obj's JSON text
JsonDumps(obj) == [json |-> obj]

\* data.get(key)
Get(data, key) == IF key \in DOMAIN data THEN data[key] ELSE None

\* data.get(key) or default, for a list-valued key: an absent key gives None
\* and an empty list is falsy, so both give the default
GetOr(data, key, default) ==
    IF key \in DOMAIN data /\ Len(data[key]) > 0 THEN data[key] ELSE default

\* sep.join(parts)
RECURSIVE Join(_, _)
Join(sep, parts) ==
    IF parts = <<>> THEN ""
    ELSE IF Len(parts) = 1 THEN parts[1]
    ELSE parts[1] \o sep \o Join(sep, Tail(parts))

-----------------------------------------------------------------------------
(* generate_prompt_dataset.py *)

FORMAT_HINTS ==
    [landscape |-> <<"format:landscape", "desktop layout", "wide hero">>,
     portrait  |-> <<"format:portrait", "mobile layout", "vertical video">>,
     square    |-> <<"format:square", "social square", "1:1 canvas">>]

VARIANTS_PER_TEMPLATE == 4

\* formats = data.get('supported_formats') or ['landscape']
Formats(data) == GetOr(data, "supported_formats", <<"landscape">>)

\* variant of Phrases: keywords looked up first
PhrasesKeywordsFirst(data) ==
    GetOr(data, "keywords", GetOr(data, "user_phrases", <<>>))

\* phrases = data.get('user_phrases') or data.get('keywords') or []
Phrases(data) == GetOr(data, "user_phrases", GetOr(data, "keywords", <<>>))

\* variant of HintsOf: FORMAT_HINTS.get(fmt, [fmt])
HintsOfEcho(fmt) ==
    IF fmt \in DOMAIN FORMAT_HINTS THEN FORMAT_HINTS[fmt] ELSE <<fmt>>

\* FORMAT_HINTS.get(fmt, [])
HintsOf(fmt) == IF fmt \in DOMAIN FORMAT_HINTS THEN FORMAT_HINTS[fmt] ELSE <<>>

\* [hint for fmt in formats for hint in FORMAT_HINTS.get(fmt, [])]
RECURSIVE HintsFor(_)
HintsFor(formats) ==
    IF formats = <<>> THEN <<>>
    ELSE HintsOf(Head(formats)) \o HintsFor(Tail(formats))

\* hints = hints or ['generic format']
Hints(data) ==
    LET hints == HintsFor(Formats(data))
    IN  IF hints = <<>> THEN <<"generic format">> ELSE hints

\* variant of Variants: no slice
VariantsAll(phrases) == phrases

\* phrases[:VARIANTS_PER_TEMPLATE]
Variants(phrases) == SubSeq(phrases, 1, Min(Len(phrases), VARIANTS_PER_TEMPLATE))

\* variant of PromptParts: hints[idx % len(hints)], a hint for every phrase
PromptPartsCycle(hints, idx, phrase) ==
    <<hints[(idx % Len(hints)) + 1], phrase>>

\* prompt_parts for Python index idx: the hint at idx, when there is one,
\* then the phrase
PromptParts(hints, idx, phrase) ==
    IF idx < Len(hints) THEN <<hints[idx + 1], phrase>> ELSE <<phrase>>

\* prompt = ' '.join(prompt_parts)
Prompt(hints, idx, phrase) == Join(" ", PromptParts(hints, idx, phrase))

\* data['template_id'] and data['template_name'] do not raise KeyError
HasIdentity(data) == {"template_id", "template_name"} \subseteq DOMAIN data

\* str.lower() on the identifiers of the inputs
Lower(str) == IF str = "T1" THEN "t1" ELSE str

\* variant of Example: the template id is case-folded
ExampleLower(data, prompt) ==
    [prompt                 |-> prompt,
     expected_template_id   |-> Lower(data["template_id"]),
     expected_template_name |-> data["template_name"],
     db_id                  |-> Get(data, "db_id")]

\* the dict appended to examples
Example(data, prompt) ==
    [prompt                 |-> prompt,
     expected_template_id   |-> data["template_id"],
     expected_template_name |-> data["template_name"],
     db_id                  |-> Get(data, "db_id")]

\* the examples one iteration of the loop over lines appends, for a record
\* with a non-empty phrase list and both identity keys
Expand(data) ==
    LET hints == Hints(data)
        vs    == Variants(Phrases(data))
    IN  [j \in 1..Len(vs) |-> Example(data, Prompt(hints, j - 1, vs[j]))]

-----------------------------------------------------------------------------
(* prepare_finetune.py *)

prefix_system ==
    "You are a template routing assistant. Given user intent, respond with the best template id."

\* example['prompt'] and example['expected_template_id'] do not raise KeyError
HasPromptAndLabel(example) ==
    {"prompt", "expected_template_id"} \subseteq DOMAIN example

\* variant of Conversation: the assistant answers with the template name
ConversationByName(example) ==
    [messages |->
        << [role |-> "system",    content |-> prefix_system],
           [role |-> "user",      content |-> example["prompt"]],
           [role |-> "assistant", content |-> example["expected_template_name"]] >>]

\* the dict written for one example
Conversation(example) ==
    [messages |->
        << [role |-> "system",    content |-> prefix_system],
           [role |-> "user",      content |-> example["prompt"]],
           [role |-> "assistant", content |-> example["expected_template_id"]] >>]

-----------------------------------------------------------------------------
(* Inputs: the files a run can find *)

\* the phrase list "p1", ..., "pn"
P(n) == [j \in 1..n |-> "p" \o ToString(j)]

\* records that differ in the length of user_phrases (fewer than, exactly
\* and more than VARIANTS_PER_TEMPLATE), one recognized format
PhraseRecords ==
    { [template_id |-> "t1", template_name |-> "Hero",
       supported_formats |-> <<"square">>, user_phrases |-> P(n)] :
      n \in {2, VARIANTS_PER_TEMPLATE, MaxPhrases} }

\* a record with an empty string among the phrases, no recognized format
EmptyPhraseRecords ==
    { [template_id |-> "t2", template_name |-> "Card",
       supported_formats |-> <<"vertical">>, user_phrases |-> <<"a", "">>] }

\* records that differ in where the phrases come from; the id differs from
\* "t1" in case only, and db_id is present
SourceRecords ==
    LET base == [template_id |-> "T1", template_name |-> "hero", db_id |-> "db1"]
        u1   == <<"u1">>
        ks   == <<"k1", "k2">>
    IN  { base,
          base @@ ("keywords" :> ks),
          base @@ ("user_phrases" :> <<>>) @@ ("keywords" :> <<>>),
          base @@ ("user_phrases" :> <<>>) @@ ("keywords" :> ks),
          base @@ ("user_phrases" :> u1) @@ ("keywords" :> ks) }

\* records that differ in supported_formats, phrases from keywords
FormatLists ==
    { <<>>, <<"vertical">>, <<"vertical", "portrait">>,
      <<"portrait", "landscape">>, <<"square", "square">> }

FormatRecords ==
    LET base == [template_id |-> "t3", template_name |-> "Grid",
                 keywords |-> P(MaxPhrases)]
    IN  {base} \cup { base @@ ("supported_formats" :> f) : f \in FormatLists }

\* records without template_id or template_name, with and without phrases
MissingRecords ==
    { [template_name |-> "Hero", user_phrases |-> <<"p1">>],
      [template_id |-> "t1", keywords |-> <<"k1">>],
      [db_id |-> "db9", user_phrases |-> <<>>] }

Records ==
    PhraseRecords \cup EmptyPhraseRecords \cup SourceRecords
        \cup FormatRecords \cup MissingRecords

\* a line that is not valid JSON
BadLine == [raw |-> "{not json"]

SourceLines == { JsonDumps(r) : r \in Records } \cup {BadLine}

RECURSIVE SeqsUpTo(_, _)
SeqsUpTo(S, n) ==
    IF n = 0 THEN { <<>> }
    ELSE LET shorter == SeqsUpTo(S, n - 1)
         IN  shorter \cup { Append(s, e) : s \in shorter, e \in S }

\* what an earlier run left in the prompt dataset
OldExample ==
    JsonDumps([prompt |-> "format:square old", expected_template_id |-> "t0",
               expected_template_name |-> "Old", db_id |-> None])

NoLabelLine == JsonDumps([prompt |-> "format:square old"])

PriorPrompts ==
    { <<OldExample, BadLine, OldExample>>,
      <<OldExample, NoLabelLine, BadLine>> }

\* what an earlier run left in the fine-tune dataset
PriorFinetune == << JsonDumps(Conversation(JsonLoads(OldExample))) >>

-----------------------------------------------------------------------------
(* State machine *)

\* the stages run one after the other: the formatter is started once the
\* expander has ended, normally or not
Ended(pc) == pc \in {"done", "aborted"}

Init ==
    /\ SOURCE \in SeqsUpTo(SourceLines, MaxRecords)
    /\ OUT \in PriorPrompts
    /\ OUTPUT = PriorFinetune
    /\ xpc = "idle" /\ xlines = <<>> /\ xi = 1
    /\ examples = <<>> /\ origin = <<>>
    /\ xerr = "" /\ xprinted = <<>> /\ OUT0 = OUT
    /\ fpc = "idle" /\ flines = <<>> /\ fi = 1
    /\ ferr = "" /\ fprinted = 0

(* PromptExpander: main() *)

\* variant of XReadSource: the destination is opened for writing before the
\* source is read, as prepare_finetune.py does
XReadSourceOpenFirst ==
    /\ xpc = "idle"
    /\ OUT' = <<>>
    /\ xlines' = SOURCE /\ xi' = 1
    /\ examples' = <<>> /\ origin' = <<>>
    /\ xpc' = "loop"
    /\ UNCHANGED <<SOURCE, OUTPUT, xerr, xprinted, OUT0, fvars>>

\* lines 16-17: examples = []; SOURCE.read_text().splitlines() succeeds
XReadSource ==
    /\ xpc = "idle"
    /\ xlines' = SOURCE /\ xi' = 1
    /\ examples' = <<>> /\ origin' = <<>>
    /\ xpc' = "loop"
    /\ UNCHANGED <<SOURCE, OUT, OUTPUT, xerr, xprinted, OUT0, fvars>>

\* line 17: SOURCE.read_text() raises (missing or unreadable file)
XReadFail ==
    /\ xpc = "idle"
    /\ xpc' = "aborted" /\ xerr' = "FileNotFoundError"
    /\ UNCHANGED <<SOURCE, OUT, OUTPUT, xlines, xi, examples, origin,
                   xprinted, OUT0, fvars>>

XAtLine == xpc = "loop" /\ xi <= Len(xlines)

\* variant of XDecodeError: the exception is caught and the line skipped
XDecodeSkip ==
    /\ XAtLine /\ ~ValidJson(xlines[xi])
    /\ xi' = xi + 1
    /\ UNCHANGED <<SOURCE, OUT, OUTPUT, xpc, xlines, examples, origin, xerr,
                   xprinted, OUT0, fvars>>

\* line 18: json.loads(line) raises
XDecodeError ==
    /\ XAtLine /\ ~ValidJson(xlines[xi])
    /\ xpc' = "aborted" /\ xerr' = "JSONDecodeError"
    /\ UNCHANGED <<SOURCE, OUT, OUTPUT, xlines, xi, examples, origin,
                   xprinted, OUT0, fvars>>

\* lines 18-22: a record without phrases: continue
XSkip ==
    /\ XAtLine /\ ValidJson(xlines[xi])
    /\ Phrases(JsonLoads(xlines[xi])) = <<>>
    /\ xi' = xi + 1
    /\ UNCHANGED <<SOURCE, OUT, OUTPUT, xpc, xlines, examples, origin, xerr,
                   xprinted, OUT0, fvars>>

\* lines 18-33/34: a record with phrases: data['template_id'] or
\* data['template_name'] raises KeyError while the dict for the first phrase
\* is built, before anything is appended
XKeyError ==
    /\ XAtLine /\ ValidJson(xlines[xi])
    /\ Phrases(JsonLoads(xlines[xi])) # <<>>
    /\ ~HasIdentity(JsonLoads(xlines[xi]))
    /\ xpc' = "aborted" /\ xerr' = "KeyError"
    /\ UNCHANGED <<SOURCE, OUT, OUTPUT, xlines, xi, examples, origin,
                   xprinted, OUT0, fvars>>

\* lines 18-36: a record with phrases and identity: one example per variant
XExpand ==
    /\ XAtLine /\ ValidJson(xlines[xi])
    /\ LET data == JsonLoads(xlines[xi])
           new  == Expand(data)
       IN  /\ Phrases(data) # <<>>
           /\ HasIdentity(data)
           /\ examples' = examples \o new
           /\ origin' = origin \o [j \in 1..Len(new) |-> <<xi, j - 1>>]
    /\ xi' = xi + 1
    /\ UNCHANGED <<SOURCE, OUT, OUTPUT, xpc, xlines, xerr, xprinted, OUT0,
                   fvars>>

\* line 37: OUT.open('w') truncates the destination
XOpenOut ==
    /\ xpc = "loop" /\ xi > Len(xlines)
    /\ OUT' = <<>>
    /\ xpc' = "write"
    /\ UNCHANGED <<SOURCE, OUTPUT, xlines, xi, examples, origin, xerr,
                   xprinted, OUT0, fvars>>

\* line 37: OUT.open('w') raises (unwritable destination)
XOpenFail ==
    /\ xpc = "loop" /\ xi > Len(xlines)
    /\ xpc' = "aborted" /\ xerr' = "PermissionError"
    /\ UNCHANGED <<SOURCE, OUT, OUTPUT, xlines, xi, examples, origin,
                   xprinted, OUT0, fvars>>

\* lines 38-39: one line per example, in list order; the file is closed
XWrite ==
    /\ xpc = "write"
    /\ OUT' = OUT \o [j \in 1..Len(examples) |-> JsonDumps(examples[j])]
    /\ xpc' = "print"
    /\ UNCHANGED <<SOURCE, OUTPUT, xlines, xi, examples, origin, xerr,
                   xprinted, OUT0, fvars>>

\* line 40: the summary line, with len(examples)
XPrint ==
    /\ xpc = "print"
    /\ xprinted' = Append(xprinted, Len(examples))
    /\ xpc' = "done"
    /\ UNCHANGED <<SOURCE, OUT, OUTPUT, xlines, xi, examples, origin, xerr,
                   OUT0, fvars>>

(* FinetuneFormatter: the module body *)

\* line 10: OUTPUT.open('w') truncates the destination
FOpenOutput ==
    /\ fpc = "idle" /\ Ended(xpc)
    /\ OUTPUT' = <<>>
    /\ fpc' = "opened"
    /\ UNCHANGED <<SOURCE, OUT, flines, fi, ferr, fprinted, xvars>>

\* line 10: OUTPUT.open('w') raises (unwritable destination)
FOpenFail ==
    /\ fpc = "idle" /\ Ended(xpc)
    /\ fpc' = "aborted" /\ ferr' = "PermissionError"
    /\ UNCHANGED <<SOURCE, OUT, OUTPUT, flines, fi, fprinted, xvars>>

\* line 11: PROMPTS.read_text().splitlines() succeeds
FReadPrompts ==
    /\ fpc = "opened"
    /\ flines' = OUT /\ fi' = 1
    /\ fpc' = "loop"
    /\ UNCHANGED <<SOURCE, OUT, OUTPUT, ferr, fprinted, xvars>>

\* line 11: PROMPTS.read_text() raises (missing or unreadable file); the
\* with block closes OUTPUT
FReadFail ==
    /\ fpc = "opened"
    /\ fpc' = "aborted" /\ ferr' = "FileNotFoundError"
    /\ UNCHANGED <<SOURCE, OUT, OUTPUT, flines, fi, fprinted, xvars>>

FAtLine == fpc = "loop" /\ fi <= Len(flines)

\* line 12: json.loads(line) raises
FDecodeError ==
    /\ FAtLine /\ ~ValidJson(flines[fi])
    /\ fpc' = "aborted" /\ ferr' = "JSONDecodeError"
    /\ UNCHANGED <<SOURCE, OUT, OUTPUT, flines, fi, fprinted, xvars>>

\* lines 13-14: example['prompt'] or example['expected_template_id'] raises
FKeyError ==
    /\ FAtLine /\ ValidJson(flines[fi])
    /\ ~HasPromptAndLabel(JsonLoads(flines[fi]))
    /\ fpc' = "aborted" /\ ferr' = "KeyError"
    /\ UNCHANGED <<SOURCE, OUT, OUTPUT, flines, fi, fprinted, xvars>>

\* lines 12-22: one conversation written for the line
FFormat ==
    /\ FAtLine /\ ValidJson(flines[fi])
    /\ HasPromptAndLabel(JsonLoads(flines[fi]))
    /\ OUTPUT' = Append(OUTPUT, JsonDumps(Conversation(JsonLoads(flines[fi]))))
    /\ fi' = fi + 1
    /\ UNCHANGED <<SOURCE, OUT, fpc, flines, ferr, fprinted, xvars>>

\* line 24: the summary line, after the with block has closed OUTPUT
FPrint ==
    /\ fpc = "loop" /\ fi > Len(flines)
    /\ fprinted' = fprinted + 1
    /\ fpc' = "done"
    /\ UNCHANGED <<SOURCE, OUT, OUTPUT, flines, fi, ferr, xvars>>

Next ==
    \/ XReadSource \/ XReadFail
    \/ XDecodeError \/ XSkip \/ XKeyError \/ XExpand
    \/ XOpenOut \/ XOpenFail \/ XWrite \/ XPrint
    \/ FOpenOutput \/ FOpenFail \/ FReadPrompts \/ FReadFail
    \/ FDecodeError \/ FKeyError \/ FFormat \/ FPrint

Spec == Init /\ [][Next]_vars

-----------------------------------------------------------------------------
(* Vocabulary of the properties, stated on the input records themselves *)

Present(data, key) == key \in DOMAIN data /\ data[key] # <<>>

\* the phrase list a record is expanded from: user_phrases when present and
\* non-empty, otherwise keywords, otherwise nothing
SelectedPhrases(data) ==
    IF Present(data, "user_phrases") THEN data["user_phrases"]
    ELSE IF Present(data, "keywords") THEN data["keywords"]
    ELSE <<>>

Recognized == {"landscape", "portrait", "square"}

RECURSIVE HintsOfFormats(_)
HintsOfFormats(fs) ==
    IF fs = <<>> THEN <<>>
    ELSE (IF Head(fs) \in Recognized THEN FORMAT_HINTS[Head(fs)] ELSE <<>>)
         \o HintsOfFormats(Tail(fs))

\* the combined hint list of a record
CombinedHints(data) ==
    LET fs == IF Present(data, "supported_formats")
              THEN data["supported_formats"] ELSE <<"landscape">>
        hs == HintsOfFormats(fs)
    IN  IF hs = <<>> THEN <<"generic format">> ELSE hs

AllHints ==
    {"generic format"}
        \cup UNION { { FORMAT_HINTS[f][n] : n \in 1..Len(FORMAT_HINTS[f]) } :
                     f \in Recognized }

\* prompt is phrase, alone or behind one hint
PromptIsFor(prompt, phrase) ==
    \/ prompt = phrase
    \/ \E h \in AllHints : prompt = h \o " " \o phrase

\* the record on line k of the source, and where example j comes from
RecordAt(k) == JsonLoads(SOURCE[k])
LineOf(j) == origin[j][1]
IdxOf(j) == origin[j][2]

\* positions in examples of the examples made from line k
ExamplesOf(k) == { j \in 1..Len(examples) : LineOf(j) = k }

\* lines the loop has gone past
Processed == 1..(xi - 1)

\* <<k, 0>>, ..., <<k, min(4, n) - 1>> for each of the first k lines that has
\* n >= 1 selected phrases, in line order
RECURSIVE Slots(_)
Slots(k) ==
    IF k = 0 THEN <<>>
    ELSE Slots(k - 1)
         \o [i \in 1..Min(4, Len(SelectedPhrases(RecordAt(k)))) |-> <<k, i - 1>>]

-----------------------------------------------------------------------------
(* C1: every example made from phrase index i of a record with combined    *)
(* hint list H and phrase list P has i < min(4, len(P)) and the prompt     *)
(* H[i] + " " + P[i] when i < len(H), and exactly P[i] otherwise; every    *)
(* such index of a processed record has its example.                       *)
C1_IndexBoundedPairing ==
    /\ \A j \in 1..Len(examples) :
        LET data == RecordAt(LineOf(j))
            H    == Hints(data)
            Ps   == Phrases(data)
            i    == IdxOf(j)
        IN  /\ i >= 0 /\ i < Min(4, Len(Ps))
            /\ examples[j].prompt =
                 (IF i < Len(H) THEN H[i + 1] \o " " \o Ps[i + 1] ELSE Ps[i + 1])
    /\ \A k \in Processed :
        \A i \in 0..(Min(4, Len(Phrases(RecordAt(k)))) - 1) :
            \E j \in ExamplesOf(k) : IdxOf(j) = i

\* a record with a single recognized format: hints at indices 0-2, none at 3
C1_Witness ==
    \E j \in 1..Len(examples) :
        /\ RecordAt(LineOf(j))["template_id"] = "t1"
        /\ IdxOf(j) = 3 /\ examples[j].prompt = "p4"
        /\ examples[j - 1].prompt = "1:1 canvas p3"

(* C2: the examples are, in line order, the first min(4, n) phrases of     *)
(* every processed record with n >= 1 selected phrases, in phrase order;   *)
(* on completion the destination holds exactly these, one line each.       *)
C2_OrderAndTruncation ==
    /\ xpc # "idle" => origin = Slots(xi - 1)
    /\ Len(examples) = Len(origin)
    /\ \A j \in 1..Len(examples) :
        PromptIsFor(examples[j].prompt,
                    SelectedPhrases(RecordAt(LineOf(j)))[IdxOf(j) + 1])
    /\ \A k \in Processed :
        LET n == Len(SelectedPhrases(RecordAt(k)))
        IN  /\ n >= 1 => Cardinality(ExamplesOf(k)) \in 1..4
            /\ Cardinality(ExamplesOf(k)) = Min(4, n)
    /\ xpc \in {"print", "done"} =>
        /\ xi = Len(SOURCE) + 1
        /\ OUT = [j \in 1..Len(examples) |-> JsonDumps(examples[j])]

\* two records, the first with more than four phrases, the second with fewer
C2_Witness ==
    /\ xpc = "done" /\ Len(SOURCE) = 2
    /\ Len(SelectedPhrases(RecordAt(1))) > 4
    /\ Len(SelectedPhrases(RecordAt(2))) = 2
    /\ Len(OUT) = 6
    /\ JsonLoads(OUT[4]).prompt = "p4"
    /\ JsonLoads(OUT[5]).expected_template_id # JsonLoads(OUT[4]).expected_template_id

(* C3: every example carries the template_id and the template_name of the  *)
(* record its phrase comes from, unchanged, and that record's db_id, or    *)
(* None when the record has none; so does every line written.              *)
C3_Identity ==
    /\ \A j \in 1..Len(examples) :
        LET data == RecordAt(LineOf(j))
        IN  /\ examples[j].expected_template_id = data["template_id"]
            /\ examples[j].expected_template_name = data["template_name"]
            /\ examples[j].db_id =
                 (IF "db_id" \in DOMAIN data THEN data["db_id"] ELSE None)
    /\ xpc \in {"print", "done"} =>
        \A j \in 1..Len(OUT) :
            JsonLoads(OUT[j]).expected_template_id
                = RecordAt(LineOf(j))["template_id"]

\* examples of two records whose ids differ in case only, one without db_id
C3_Witness ==
    /\ xpc = "done" /\ Len(OUT) >= 2
    /\ JsonLoads(OUT[1]).expected_template_id = "T1"
    /\ JsonLoads(OUT[1]).db_id = "db1"
    /\ JsonLoads(OUT[Len(OUT)]).expected_template_id = "t1"
    /\ JsonLoads(OUT[Len(OUT)]).db_id = None

(* C4: a processed record is expanded from its user_phrases when that is   *)
(* present and non-empty, otherwise from its keywords; a record with       *)
(* neither has no example and the run does not abort on it.                *)
C4_PhraseSource ==
    \A k \in 1..Len(xlines) :
        ValidJson(SOURCE[k]) =>
            LET sel == SelectedPhrases(RecordAt(k))
            IN  /\ sel = <<>> =>
                    /\ ExamplesOf(k) = {}
                    /\ ~(xpc = "aborted" /\ xi = k)
                /\ (k \in Processed /\ sel # <<>>) =>
                    /\ Cardinality(ExamplesOf(k)) = Min(4, Len(sel))
                    /\ \A j \in ExamplesOf(k) :
                        PromptIsFor(examples[j].prompt, sel[IdxOf(j) + 1])

\* a record with both lists between two records with neither
C4_Witness ==
    /\ xpc = "done" /\ Len(SOURCE) = 2
    /\ Present(RecordAt(1), "user_phrases") /\ Present(RecordAt(1), "keywords")
    /\ "keywords" \in DOMAIN RecordAt(2) /\ SelectedPhrases(RecordAt(2)) = <<>>
    /\ Len(examples) = 1 /\ examples[1].prompt = "format:landscape u1"

(* C5: the hint of every prompt comes from the concatenation, in format    *)
(* order and with duplicates, of FORMAT_HINTS[f] over the record's         *)
(* recognized formats (landscape when supported_formats is absent or       *)
(* empty), or is "generic format" when no recognized format remains.       *)
C5_HintDerivation ==
    \A j \in 1..Len(examples) :
        LET data == RecordAt(LineOf(j))
            H    == CombinedHints(data)
            ph   == SelectedPhrases(data)[IdxOf(j) + 1]
            i    == IdxOf(j)
        IN  /\ examples[j].prompt =
                 (IF i < Len(H) THEN H[i + 1] \o " " \o ph ELSE ph)
            /\ \A n \in 1..Len(Formats(data)) :
                 Formats(data)[n] \notin Recognized =>
                    examples[j].prompt # Formats(data)[n] \o " " \o ph

\* an unrecognized format before a recognized one, and one alone
C5_Witness ==
    /\ Len(SOURCE) = 2 /\ Len(examples) = 8
    /\ \A k \in 1..2 : "supported_formats" \in DOMAIN RecordAt(k)
    /\ RecordAt(1)["supported_formats"] = <<"vertical", "portrait">>
    /\ RecordAt(2)["supported_formats"] = <<"vertical">>
    /\ examples[1].prompt = "format:portrait p1"
    /\ examples[4].prompt = "p4"
    /\ examples[5].prompt = "generic format p1"
    /\ examples[6].prompt = "p2"

(* C6: the fine-tune file holds one conversation per line read from the    *)
(* prompt dataset, in the same order: three turns system, user, assistant, *)
(* the system content the fixed instruction, the user content the line's   *)
(* prompt and the assistant content the line's expected_template_id; on    *)
(* completion there are as many conversations as lines read.               *)
FWriting ==
    \/ fpc \in {"loop", "done"}
    \/ fpc = "aborted" /\ ferr \in {"JSONDecodeError", "KeyError"}

C6_OneConversationPerExample ==
    /\ FWriting =>
        /\ Len(OUTPUT) = fi - 1
        /\ \A j \in 1..Len(OUTPUT) :
            LET msgs == JsonLoads(OUTPUT[j]).messages
                ex   == JsonLoads(flines[j])
            IN  /\ DOMAIN JsonLoads(OUTPUT[j]) = {"messages"}
                /\ Len(msgs) = 3
                /\ <<msgs[1].role, msgs[2].role, msgs[3].role>>
                     = <<"system", "user", "assistant">>
                /\ msgs[1].content = JsonLoads(OUTPUT[1]).messages[1].content
                /\ msgs[1].content = prefix_system
                /\ msgs[2].content = ex["prompt"]
                /\ msgs[3].content = ex["expected_template_id"]
    /\ fpc = "done" => Len(OUTPUT) = Len(flines)

\* both stages completed: the conversations of a record with two phrases
C6_Witness ==
    /\ xpc = "done" /\ fpc = "done" /\ Len(flines) = 2 /\ flines = OUT
    /\ Len(OUTPUT) = 2
    /\ JsonLoads(OUTPUT[1]).messages[2].content = "format:square p1"
    /\ JsonLoads(OUTPUT[2]).messages[2].content = "social square p2"
    /\ JsonLoads(OUTPUT[2]).messages[3].content = "t1"

(* C7: a line that is not valid JSON (either stage), or a PromptExpander   *)
(* record with phrases but without template_id or template_name, is fatal: *)
(* the run never gets past the first such line, nothing after it is        *)
(* processed, the run does not complete and prints no summary; a decode or *)
(* key error of PromptExpander is raised at the first such line and never  *)
(* at a record without phrases, whatever keys that record lacks.           *)
XMalformed(line) ==
    \/ ~ValidJson(line)
    \/ /\ SelectedPhrases(JsonLoads(line)) # <<>>
       /\ \/ "template_id" \notin DOMAIN JsonLoads(line)
          \/ "template_name" \notin DOMAIN JsonLoads(line)

C7_MalformedIsFatal ==
    /\ LET bad == { k \in 1..Len(xlines) : XMalformed(xlines[k]) }
       IN  /\ bad # {} =>
                /\ xpc \notin {"write", "print", "done"}
                /\ xprinted = <<>>
                /\ \A k \in bad : xi <= k
                /\ \A j \in 1..Len(examples) : \A k \in bad : LineOf(j) < k
           /\ (xpc = "aborted" /\ xerr \in {"JSONDecodeError", "KeyError"}) =>
                /\ xi \in bad
                /\ \A k \in bad : xi <= k
           /\ \A k \in 1..Len(xlines) :
                (ValidJson(xlines[k]) /\ SelectedPhrases(JsonLoads(xlines[k])) = <<>>)
                    => ~(xpc = "aborted" /\ xi = k)
    /\ LET bad == { k \in 1..Len(flines) : ~ValidJson(flines[k]) }
       IN  /\ bad # {} =>
                /\ fpc # "done"
                /\ fprinted = 0
                /\ \A k \in bad : fi <= k /\ Len(OUTPUT) < k
           /\ (fpc = "aborted" /\ ferr = "JSONDecodeError") =>
                /\ fi \in bad
                /\ \A k \in bad : fi <= k

\* PromptExpander got past a record without phrases and without identity and
\* stopped at the invalid line behind it; FinetuneFormatter stopped at the
\* invalid line of the dataset an earlier run left
C7_Witness ==
    /\ Len(xlines) = 2
    /\ ValidJson(xlines[1]) /\ DOMAIN JsonLoads(xlines[1]) = {"db_id", "user_phrases"}
    /\ xpc = "aborted" /\ xerr = "JSONDecodeError" /\ xi = 2
    /\ fpc = "aborted" /\ ferr = "JSONDecodeError" /\ fi = 2 /\ Len(flines) = 3

(* C8: in each stage nothing happens to the destination file, truncation   *)
(* on open included, before the source has been read: as long as a stage   *)
(* has not read its source, and when it aborted because the source could   *)
(* not be read, its destination holds what it held before.                 *)
C8_SourceReadBeforeDestinationTouched ==
    /\ (xpc = "idle" \/ (xpc = "aborted" /\ xerr = "FileNotFoundError"))
            => OUT = OUT0
    /\ (fpc \in {"idle", "opened"} \/ (fpc = "aborted" /\ ferr = "FileNotFoundError"))
            => OUTPUT = PriorFinetune

(* C9: every example has a non-empty prompt.                               *)
C9_PromptNonEmpty ==
    \A j \in 1..Len(examples) : examples[j].prompt # ""

(* C10: the prompt dataset is written only after every line of the source  *)
(* has been decoded and expanded: until then, and when the run aborted, it *)
(* holds what it held before the run; on completion the count printed is   *)
(* the number of lines written.                                            *)
C10_AllOrNothing ==
    /\ xpc \in {"idle", "loop", "aborted"} => OUT = OUT0
    /\ xpc \in {"write", "print", "done"} =>
        /\ xlines = SOURCE /\ xi = Len(SOURCE) + 1
        /\ \A k \in 1..Len(SOURCE) : ~XMalformed(SOURCE[k])
    /\ xpc = "done" =>
        /\ Len(OUT) = Len(examples)
        /\ xprinted = <<Len(OUT)>>
    /\ xpc # "done" => xprinted = <<>>

\* the second record lacks template_id: the examples of the first are dropped
C10_Witness ==
    /\ xpc = "aborted" /\ xerr = "KeyError" /\ xi = 2
    /\ Len(examples) > 0
    /\ OUT = OUT0 /\ OUT # <<>>

====
